---- MODULE Spec2Model ----
(***************************************************************************)
(* Model of src/main.py: the Telegram bot's handlers (build_app), its two  *)
(* ConversationHandlers (account flow, admin flow), the shared per-user    *)
(* user_data dictionary and the sqlite tables users / accounts.            *)
(*                                                                         *)
(* One action per handler.  An update is processed to completion before    *)
(* the next one is taken (the application is built without concurrent      *)
(* updates), so a handler is one atomic step.  A handler that raises       *)
(* leaves the conversation state as it was; the user_data keys it set,     *)
(* the messages it sent and the rows it committed before raising stay.     *)
(***************************************************************************)
EXTENDS Integers, Sequences, FiniteSets, TLC

VARIABLES users, accounts, account_conv, admin_conv, user_data, last, updates, inflight

vars == <<users, accounts, account_conv, admin_conv, user_data, last, updates, inflight>>

(***************************************************************************)
(* Bounds and program constants                                            *)
(***************************************************************************)
MaxAccounts == 2
\* number of updates the transport delivers in a run
MaxUpdates == 7

ADD_ACCOUNT_TOKEN == 0
ADD_ACCOUNT_CONFIRM == 1
ADMIN_WAIT_USER_ID == 2
END == -1

\* telegram users talking to the bot (private chats), and cfg.ADMIN_IDS
UserIds == {1, 2}
ADMIN_IDS == {1}

(***************************************************************************)
(* Texts are sequences of characters; str.strip / str.isdigit / int        *)
(***************************************************************************)
Whitespace == {" "}
AsciiDigits == {"1", "2"}

RECURSIVE lstrip(_)
lstrip(s) ==
  IF s = <<>> THEN <<>>
  ELSE IF Head(s) \in Whitespace THEN lstrip(Tail(s)) ELSE s

RECURSIVE rstrip(_)
rstrip(s) ==
  IF s = <<>> THEN <<>>
  ELSE IF s[Len(s)] \in Whitespace THEN rstrip(SubSeq(s, 1, Len(s) - 1)) ELSE s

strip(s) == rstrip(lstrip(s))

isdigit(s) == Len(s) > 0 /\ \A i \in 1..Len(s) : s[i] \in AsciiDigits

DigitValue(c) == IF c = "1" THEN 1 ELSE 2

RECURSIVE int(_)
int(s) ==
  IF Len(s) = 0 THEN 0
  ELSE 10 * int(SubSeq(s, 1, Len(s) - 1)) + DigitValue(s[Len(s)])

(***************************************************************************)
(* JSON values (tagged) and the Python operations the code applies to them *)
(***************************************************************************)
JNull == [t |-> "null", v |-> 0]
JBool(b) == [t |-> "bool", v |-> b]
JNum(n) == [t |-> "num", v |-> n]
JStr(s) == [t |-> "str", v |-> s]
JList(l) == [t |-> "list", v |-> l]
JObj(o) == [t |-> "obj", v |-> o]
EmptyDict == JObj([k \in {} |-> JNull])
EmptyList == JList(<<>>)
\* a body that is not JSON at all (an HTML error page, an empty body)
RawText(s) == [t |-> "raw", v |-> s]

\* Python truthiness: bool(x)
Truthy(x) ==
  CASE x.t = "null" -> FALSE
    [] x.t = "bool" -> x.v
    [] x.t = "num"  -> x.v # 0
    [] x.t = "str"  -> x.v # ""
    [] x.t = "list" -> Len(x.v) > 0
    [] x.t = "obj"  -> DOMAIN x.v # {}
    [] OTHER -> FALSE

isdict(x) == x.t = "obj"

\* dict.get(key) / dict.get(key, default) on a value known to be a dict
dict_get(d, key, default) == IF key \in DOMAIN d.v THEN d.v[key] ELSE default

\* x or y
Or(x, y) == IF Truthy(x) THEN x ELSE y

(***************************************************************************)
(* Results of code that may raise: ok = FALSE is a raised exception        *)
(***************************************************************************)
Ok(x) == [ok |-> TRUE, val |-> x]
Raise == [ok |-> FALSE, val |-> JNull]

RECURSIVE SetToSeq(_)
SetToSeq(S) ==
  IF S = {} THEN <<>>
  ELSE LET x == CHOOSE y \in S : TRUE IN <<x>> \o SetToSeq(S \ {x})

\* "for item in x": a list yields its elements, a dict its keys, a str its
\* characters (each a str); None, bool and numbers are not iterable
Iterate(x) ==
  CASE x.t = "list" -> Ok(x.v)
    [] x.t = "obj"  -> Ok([i \in 1..Cardinality(DOMAIN x.v) |-> JStr(SetToSeq(DOMAIN x.v)[i])])
    [] x.t = "str"  -> Ok(IF x.v = "" THEN <<>> ELSE <<JStr(x.v)>>)
    [] OTHER -> Raise

hashable(x) == x.t \notin {"list", "obj"}

\* "flags.setdefault(name, ...)": the first entry of a name is kept
RECURSIVE pte_loop_first_wins(_, _)
pte_loop_first_wins(items, flags) ==
  IF items = <<>> THEN Ok(flags)
  ELSE LET item == Head(items) IN
    IF ~isdict(item) THEN Raise
    ELSE LET name == dict_get(item, "name", JNull) IN
      IF ~Truthy(name) THEN pte_loop_first_wins(Tail(items), flags)
      ELSE IF ~hashable(name) THEN Raise
      ELSE pte_loop_first_wins(Tail(items),
             [k \in DOMAIN flags \cup {name} |->
                IF k \in DOMAIN flags THEN flags[k]
                ELSE Or(dict_get(item, "value", JNull), EmptyDict)])

RECURSIVE pte_loop(_, _)
pte_loop(items, flags) ==
  IF items = <<>> THEN Ok(flags)
  ELSE LET item == Head(items) IN
    IF ~isdict(item) THEN Raise
    ELSE LET name == dict_get(item, "name", JNull) IN
      IF ~Truthy(name) THEN pte_loop(Tail(items), flags)
      ELSE IF ~hashable(name) THEN Raise
      ELSE pte_loop(Tail(items),
             [k \in DOMAIN flags \cup {name} |->
                IF k = name THEN Or(dict_get(item, "value", JNull), EmptyDict)
                ELSE flags[k]])

\* flags: a mapping from names to values
parse_typed_experiments(items) ==
  LET it == Iterate(items) IN
  IF ~it.ok THEN Raise ELSE pte_loop(it.val, [k \in {} |-> JNull])

flags_get(flags, name, default) ==
  IF JStr(name) \in DOMAIN flags THEN flags[JStr(name)] ELSE default

\* labels of the summary
LabelNo == JStr("net")
LabelYes == JStr("da")
LabelNoData == JStr("net dannyh")
LabelSome == JStr("est")
LabelOn == JStr("vkljuchen")
LabelOff == JStr("vykljuchen")

\* str(x) as an f-string shows it
Render(x) ==
  CASE x.t = "str"  -> x
    [] x.t = "null" -> JStr("None")
    [] x.t = "bool" -> JStr(IF x.v THEN "True" ELSE "False")
    [] OTHER -> [t |-> "repr", v |-> x]

RECURSIVE subscription_ids(_)
subscription_ids(subs) ==
  IF subs = <<>> THEN Ok(<<>>)
  ELSE LET sub == Head(subs) IN
    IF ~isdict(sub) THEN Raise
    ELSE LET rest == subscription_ids(Tail(subs))
             sid == dict_get(sub, "subscription_id", JNull) IN
      IF ~rest.ok THEN Raise
      ELSE Ok((IF Truthy(sid) THEN <<sid>> ELSE <<>>) \o rest.val)

format_active_subscriptions(active_subscriptions) ==
  IF ~Truthy(active_subscriptions) THEN Ok(LabelNo)
  ELSE LET it == Iterate(active_subscriptions) IN
    IF ~it.ok THEN Raise
    ELSE LET ids == subscription_ids(it.val) IN
      IF ~ids.ok THEN Raise
      ELSE IF ids.val = <<>> THEN Ok(LabelSome)
      \* ", ".join(ids) takes strings only
      ELSE IF \E i \in 1..Len(ids.val) : ids.val[i].t # "str" THEN Raise
      ELSE Ok([t |-> "joined", v |-> [i \in 1..Len(ids.val) |-> ids.val[i].v]])

RECURSIVE get_nested(_, _)
get_nested(data, keys) ==
  IF keys = <<>> THEN data
  ELSE IF ~isdict(data) THEN JNull
  ELSE get_nested(dict_get(data, Head(keys), JNull), Tail(keys))

YesNo(x) == IF Truthy(x) THEN LabelYes ELSE LabelNo

\* f"{x or 'net dannyh'}"
ShownOr(x) == IF Truthy(x) THEN Render(x) ELSE LabelNoData

\* f"{d.get(key, 'net dannyh')}"
ShownGet(d, key) == IF key \in DOMAIN d.v THEN Render(d.v[key]) ELSE LabelNoData

\* returns (summary, parsed); the summary is kept as its lines' values
build_account_summary(response_data) ==
  LET typed_experiments == dict_get(response_data, "typed_experiments", EmptyDict)
      subscriptions == dict_get(response_data, "subscriptions", EmptyDict)
      phones == dict_get(response_data, "phones", EmptyDict)
  IN
  IF ~isdict(typed_experiments) THEN Raise
  ELSE LET flags == parse_typed_experiments(dict_get(typed_experiments, "items", EmptyList)) IN
  IF ~flags.ok THEN Raise
  ELSE LET debt_flow == flags_get(flags.val, "turboapp_debt_flow", EmptyDict) IN
  IF ~isdict(subscriptions) THEN Raise
  ELSE LET active_subscriptions == dict_get(subscriptions, "active_subscriptions", EmptyList)
           can_make_more_orders == get_nested(response_data, <<"orders_state", "can_make_more_orders">>)
           subs_line == format_active_subscriptions(active_subscriptions) IN
  IF ~subs_line.ok \/ ~isdict(debt_flow) \/ ~isdict(phones) THEN Raise
  ELSE Ok([
    summary |-> [
      authorized |-> YesNo(dict_get(response_data, "authorized", JNull)),
      token_valid |-> YesNo(dict_get(response_data, "token_valid", JNull)),
      can_make_more_orders |-> ShownOr(can_make_more_orders),
      rating |-> ShownOr(get_nested(response_data, <<"passenger_profile", "rating">>)),
      status_value |-> ShownOr(get_nested(response_data, <<"passenger_profile", "status", "value">>)),
      is_loyal |-> YesNo(dict_get(response_data, "is_loyal", JNull)),
      active_subscriptions |-> subs_line.val,
      debt_flow_enabled |-> IF Truthy(dict_get(debt_flow, "enabled", JNull)) THEN LabelOn ELSE LabelOff,
      debt_limit |-> ShownGet(debt_flow, "debt_limit"),
      phone |-> ShownGet(response_data, "phone"),
      phones |-> IF DOMAIN phones.v # {} THEN [t |-> "joined", v |-> SetToSeq(DOMAIN phones.v)]
                 ELSE LabelNoData,
      personal_phone_id |-> ShownGet(response_data, "personal_phone_id"),
      phone_id |-> ShownGet(response_data, "phone_id"),
      uuid |-> ShownGet(response_data, "uuid"),
      account_id |-> ShownGet(response_data, "id")],
    parsed |-> JObj([
      authorized |-> dict_get(response_data, "authorized", JNull),
      token_valid |-> dict_get(response_data, "token_valid", JNull),
      can_make_more_orders |-> can_make_more_orders,
      rating |-> get_nested(response_data, <<"passenger_profile", "rating">>),
      status_value |-> get_nested(response_data, <<"passenger_profile", "status", "value">>),
      is_loyal |-> dict_get(response_data, "is_loyal", JNull),
      active_subscriptions |-> active_subscriptions,
      debt_flow_enabled |-> dict_get(debt_flow, "enabled", JNull),
      debt_limit |-> dict_get(debt_flow, "debt_limit", JNull),
      phone |-> dict_get(response_data, "phone", JNull),
      phones |-> dict_get(response_data, "phones", JNull),
      personal_phone_id |-> dict_get(response_data, "personal_phone_id", JNull),
      phone_id |-> dict_get(response_data, "phone_id", JNull),
      uuid |-> dict_get(response_data, "uuid", JNull),
      account_id |-> dict_get(response_data, "id", JNull)])])

(***************************************************************************)
(* Persistence: tables users and accounts                                  *)
(***************************************************************************)
\* sqlite3 binds None, int/bool, float and str; a list or dict parameter raises
bindable(x) == x.t \in {"null", "bool", "num", "str"}

\* the value a bound parameter is stored as (True/False are the integers 1/0)
Bound(x) == IF x.t = "bool" THEN JNum(IF x.v THEN 1 ELSE 0) ELSE x

\* a column declared TEXT keeps a bound number as its text
TextAffinity(x) == IF x.t = "num" THEN [t |-> "text", v |-> x.v] ELSE x

\* json.dumps(x): the JSON text of x
dumps(x) == [t |-> "json", v |-> x]

\* "x or 0": a number is stored as it came
Strict_or_zero(x) == IF x.t = "num" THEN x.v ELSE IF Truthy(x) THEN 1 ELSE 0

\* 1 if x else 0
Strict(x) == IF Truthy(x) THEN 1 ELSE 0

DirectColumns == {"can_make_more_orders", "rating", "status_value", "debt_limit", "phone",
                  "personal_phone_id", "phone_id", "uuid", "account_id"}

\* the row log_account inserts, or a raise when a parameter cannot be bound
AccountRow(user_id, token2, parsed, response_status, response_body) ==
  LET get(k) == dict_get(parsed, k, JNull) IN
  IF \E k \in DirectColumns : ~bindable(get(k)) THEN Raise
  ELSE Ok([
    user_id |-> user_id,
    token2 |-> token2,
    authorized |-> Strict(get("authorized")),
    token_valid |-> Strict(get("token_valid")),
    can_make_more_orders |-> TextAffinity(Bound(get("can_make_more_orders"))),
    rating |-> TextAffinity(Bound(get("rating"))),
    status_value |-> TextAffinity(Bound(get("status_value"))),
    is_loyal |-> Strict(get("is_loyal")),
    active_subscriptions |-> dumps(get("active_subscriptions")),
    debt_flow_enabled |-> Strict(get("debt_flow_enabled")),
    debt_limit |-> Bound(get("debt_limit")),
    phone |-> TextAffinity(Bound(get("phone"))),
    phones |-> dumps(get("phones")),
    personal_phone_id |-> TextAffinity(Bound(get("personal_phone_id"))),
    phone_id |-> TextAffinity(Bound(get("phone_id"))),
    uuid |-> TextAffinity(Bound(get("uuid"))),
    account_id |-> TextAffinity(Bound(get("account_id"))),
    response_status |-> response_status,
    response_body |-> response_body])

\* init_db: the tables the program creates
Tables == {"users", "accounts"}

\* INSERT OR REPLACE keyed by token2: a row with the same credential is overwritten
log_account_replace(table, rows) ==
  IF rows # <<>> /\ \E i \in 1..Len(table) : table[i].token2 = rows[1].token2
  THEN [i \in 1..Len(table) |-> IF table[i].token2 = rows[1].token2 THEN rows[1] ELSE table[i]]
  ELSE table \o rows

\* INSERT INTO accounts: the rows the turn writes (none or one) go after the stored ones
log_account(table, rows) == table \o rows

\* a lookup that never finds a row
token_exists_never(token2) == FALSE

\* SELECT 1 FROM accounts WHERE token2 = ? LIMIT 1
token_exists(token2) == \E i \in 1..Len(accounts) : accounts[i].token2 = token2

\* SELECT COUNT(*) FROM accounts WHERE user_id = ?
get_accounts_count(user_id) ==
  Cardinality({i \in 1..Len(accounts) : accounts[i].user_id = user_id})

Max(a, b) == IF a >= b THEN a ELSE b

\* an upsert that overwrites is_allowed with the new row's value
upsert_user_overwrite(table, user_id) ==
  [k \in DOMAIN table \cup {user_id} |->
     IF k = user_id THEN (IF user_id \in ADMIN_IDS THEN 1 ELSE 0) ELSE table[k]]

\* INSERT ... ON CONFLICT(user_id) DO UPDATE SET is_allowed = MAX(old, new)
upsert_user(table, user_id) ==
  LET is_admin == IF user_id \in ADMIN_IDS THEN 1 ELSE 0 IN
  [k \in DOMAIN table \cup {user_id} |->
     IF k = user_id
     THEN (IF user_id \in DOMAIN table THEN Max(table[user_id], is_admin) ELSE is_admin)
     ELSE table[k]]

\* INSERT ... VALUES (?, 1, ?) ON CONFLICT(user_id) DO UPDATE SET is_allowed = 1
grant_user(table, target_user_id) ==
  [k \in DOMAIN table \cup {target_user_id} |-> IF k = target_user_id THEN 1 ELSE table[k]]

(***************************************************************************)
(* Inputs: updates delivered by the messaging transport, remote outcomes   *)
(***************************************************************************)
Texts == { <<"2">>, <<" ", "2">>, <<"a">> }

\* user_data.get("token2") when the key is missing
None == <<"None">>

\* what the launch endpoint may answer: status code and body text
Responses == {
  [status_code |-> 200, text |-> JObj([authorized |-> JBool(TRUE), token_valid |-> JBool(TRUE)])],
  [status_code |-> 500, text |-> RawText("error page")],
  [status_code |-> 200, text |-> JObj([typed_experiments |-> JNull])] }

\* client.post either returns a response or raises a transport error
Outcomes == {[kind |-> "raise"]} \cup {[kind |-> "response", response |-> r] : r \in Responses}

\* response.json(), then json.loads(response.text); anything but a dict is None
response_json(response) ==
  IF response.text.t = "obj" THEN Ok(response.text) ELSE Raise

(***************************************************************************)
(* Messages sent to the user                                               *)
(***************************************************************************)
Msg(k) == [kind |-> k]
MainMenu(user_id) == [kind |-> "main_menu", admin_button |-> user_id \in ADMIN_IDS]

\* user_data as a dict: a function whose domain is the set of keys present
EmptyData == [k \in {} |-> <<>>]
data_set(d, key, value) == [k \in DOMAIN d \cup {key} |-> IF k = key THEN value ELSE d[k]]
data_get(d, key) == IF key \in DOMAIN d THEN d[key] ELSE None

(***************************************************************************)
(* process_add_account: remote call, normalisation, log_account, replies   *)
(***************************************************************************)
process_add_account(user_id, token2, outcome) ==
  \* a header value that is not a str: the request is never built
  IF token2 = None THEN [raised |-> TRUE, call |-> "none", rows |-> <<>>, out |-> <<>>]
  ELSE IF outcome.kind = "raise" THEN [raised |-> TRUE, call |-> "transport_error", rows |-> <<>>, out |-> <<>>]
  ELSE LET r == outcome.response
           js == response_json(r) IN
    IF ~js.ok
    THEN LET row == AccountRow(user_id, token2, EmptyDict, r.status_code, r.text) IN
         [raised |-> FALSE, call |-> "answered", rows |-> <<row.val>>,
          out |-> <<Msg("parse_failed"), MainMenu(user_id)>>]
    ELSE LET built == build_account_summary(js.val) IN
      IF ~built.ok THEN [raised |-> TRUE, call |-> "answered", rows |-> <<>>, out |-> <<>>]
      ELSE LET row == AccountRow(user_id, token2, built.val.parsed, r.status_code, r.text) IN
        IF ~row.ok THEN [raised |-> TRUE, call |-> "answered", rows |-> <<>>, out |-> <<>>]
        ELSE [raised |-> FALSE, call |-> "answered", rows |-> <<row.val>>,
              out |-> <<[kind |-> "summary", summary |-> built.val.summary], MainMenu(user_id)>>]

(***************************************************************************)
(* build_app: which handler takes an update                                *)
(***************************************************************************)
IsCallback(update, p) == update.kind = "callback" /\ update.data = p
IsStart(update) == update.kind = "command" /\ update.data = "start"

\* add_account_handler.check_update (allow_reentry=True)
account_check(user_id, update) ==
  LET state == account_conv[user_id] IN
  IF IsCallback(update, "menu_add_account") THEN "add_account_entry"
  ELSE IF state = ADD_ACCOUNT_TOKEN /\ update.kind = "text" THEN "add_account_token"
  ELSE IF state = ADD_ACCOUNT_CONFIRM /\ update.kind = "callback"
          /\ update.data \in {"add_account_confirm_yes", "add_account_confirm_no"}
       THEN "add_account_confirm"
  ELSE IF state # END /\ IsStart(update) THEN "start"
  ELSE "none"

\* admin_handler.check_update (allow_reentry=True)
admin_check(user_id, update) ==
  LET state == admin_conv[user_id] IN
  IF update.kind = "callback" /\ update.data \in {"admin_grant", "admin_refunds"}
  THEN "admin_request_user_id"
  ELSE IF state = ADMIN_WAIT_USER_ID /\ update.kind = "text" THEN "admin_handle_user_id"
  ELSE IF state # END /\ IsStart(update) THEN "start"
  ELSE "none"

\* handlers of one group in registration order: the first that matches wins.
\* The result names the handler and the conversation it runs in.
dispatch(user_id, update) ==
  IF IsStart(update) THEN [handler |-> "start", conv |-> "top"]
  ELSE IF IsCallback(update, "menu_profile") THEN [handler |-> "profile", conv |-> "top"]
  ELSE IF IsCallback(update, "menu_admin") THEN [handler |-> "admin_menu", conv |-> "top"]
  ELSE IF IsCallback(update, "admin_stats") THEN [handler |-> "admin_stats", conv |-> "top"]
  ELSE IF IsCallback(update, "admin_back") THEN [handler |-> "show_main_menu", conv |-> "top"]
  ELSE IF account_check(user_id, update) # "none"
       THEN [handler |-> account_check(user_id, update), conv |-> "account"]
  ELSE IF admin_check(user_id, update) # "none"
       THEN [handler |-> admin_check(user_id, update), conv |-> "admin"]
  ELSE [handler |-> "none", conv |-> "top"]

\* the conversations build_app registers, each with the steps of its states map
FlowSteps == [account |-> {ADD_ACCOUNT_TOKEN, ADD_ACCOUNT_CONFIRM},
              admin |-> {ADMIN_WAIT_USER_ID}]

\* ConversationHandler._update_state: END drops the key, None keeps the state
update_state(conv, user_id, new_state) == [conv EXCEPT ![user_id] = new_state]

(***************************************************************************)
(* Initial state: empty tables, no conversation, empty user_data           *)
(***************************************************************************)
\* the last turn: who sent what (a text, or the command or payload as a
\* one-element sequence), the handler that ran, whether it issued the
\* launch request ("none", "transport_error", "answered"), whether it raised,
\* and the messages it sent
Turn(user_id, handler, data, call, raised, out) ==
  [user |-> user_id, handler |-> handler, data |-> data,
   call |-> call, raised |-> raised, out |-> out]

Init ==
  /\ users = [k \in {} |-> 0]
  /\ accounts = <<>>
  /\ account_conv = [u \in UserIds |-> END]
  /\ admin_conv = [u \in UserIds |-> END]
  /\ user_data = [u \in UserIds |-> EmptyData]
  /\ last = Turn(0, "none", <<>>, "none", FALSE, <<>>)
  /\ updates = 0
  /\ inflight = [u \in UserIds |-> None]

(***************************************************************************)
(* Handlers                                                                *)
(***************************************************************************)
\* the application takes one update at a time and runs its handler to the end
Tick == updates < MaxUpdates /\ updates' = updates + 1 /\ UNCHANGED inflight

\* /start: init_db, upsert_user, show_main_menu; returns None
start(u) ==
  LET update == [kind |-> "command", data |-> "start"] IN
  /\ dispatch(u, update).handler = "start"
  /\ Tick
  /\ users' = upsert_user(users, u)
  /\ last' = Turn(u, "start", <<"start">>, "none", FALSE, <<MainMenu(u)>>)
  /\ UNCHANGED <<accounts, account_conv, admin_conv, user_data>>

profile(u) ==
  /\ dispatch(u, [kind |-> "callback", data |-> "menu_profile"]).handler = "profile"
  /\ Tick
  /\ last' = Turn(u, "profile", <<"menu_profile">>, "none", FALSE,
                  <<[kind |-> "profile", user_id |-> u,
                     accounts_count |-> get_accounts_count(u),
                     admin_button |-> u \in ADMIN_IDS]>>)
  /\ UNCHANGED <<users, accounts, account_conv, admin_conv, user_data>>

\* registered outside the conversations: its return value is not a state
admin_menu(u) ==
  /\ dispatch(u, [kind |-> "callback", data |-> "menu_admin"]).handler = "admin_menu"
  /\ Tick
  /\ last' = Turn(u, "admin_menu", <<"menu_admin">>, "none", FALSE,
                  IF u \notin ADMIN_IDS THEN <<Msg("no_access")>> ELSE <<Msg("admin_keyboard")>>)
  /\ UNCHANGED <<users, accounts, account_conv, admin_conv, user_data>>

admin_stats(u) ==
  /\ dispatch(u, [kind |-> "callback", data |-> "admin_stats"]).handler = "admin_stats"
  /\ Tick
  /\ last' = Turn(u, "admin_stats", <<"admin_stats">>, "none", FALSE,
                  <<[kind |-> "stats", total_users |-> Cardinality(DOMAIN users),
                     total_accounts |-> Len(accounts), admin_button |-> TRUE]>>)
  /\ UNCHANGED <<users, accounts, account_conv, admin_conv, user_data>>

\* admin_back
show_main_menu(u) ==
  /\ dispatch(u, [kind |-> "callback", data |-> "admin_back"]).handler = "show_main_menu"
  /\ Tick
  /\ last' = Turn(u, "show_main_menu", <<"admin_back">>, "none", FALSE, <<MainMenu(u)>>)
  /\ UNCHANGED <<users, accounts, account_conv, admin_conv, user_data>>

add_account_entry(u) ==
  /\ dispatch(u, [kind |-> "callback", data |-> "menu_add_account"]).handler = "add_account_entry"
  /\ Tick
  /\ user_data' = [user_data EXCEPT ![u] = EmptyData]
  /\ account_conv' = update_state(account_conv, u, ADD_ACCOUNT_TOKEN)
  /\ last' = Turn(u, "add_account_entry", <<"menu_add_account">>, "none", FALSE, <<Msg("ask_token")>>)
  /\ UNCHANGED <<users, accounts, admin_conv>>

\* the handler without its context.user_data.clear() after the submission
add_account_token_keeps_buffer(u, text, outcome) ==
  LET token2 == strip(text)
      stored == data_set(user_data[u], "token2", token2)
      r == process_add_account(u, token2, outcome) IN
  /\ dispatch(u, [kind |-> "text", data |-> text]).handler = "add_account_token"
  /\ Tick
  /\ IF token_exists(token2)
     THEN /\ user_data' = [user_data EXCEPT ![u] = stored]
          /\ account_conv' = update_state(account_conv, u, ADD_ACCOUNT_CONFIRM)
          /\ last' = Turn(u, "add_account_token", text, "none", FALSE, <<Msg("duplicate_prompt")>>)
          /\ UNCHANGED accounts
     ELSE /\ Len(accounts) + Len(r.rows) <= MaxAccounts
          /\ accounts' = log_account(accounts, r.rows)
          /\ last' = Turn(u, "add_account_token", text, r.call, r.raised, r.out)
          /\ IF r.raised
             THEN /\ user_data' = [user_data EXCEPT ![u] = stored]
                  /\ UNCHANGED account_conv
             ELSE /\ user_data' = [user_data EXCEPT ![u] = stored]
                  /\ account_conv' = update_state(account_conv, u, END)
  /\ UNCHANGED <<users, admin_conv>>

add_account_token(u, text, outcome) ==
  LET token2 == strip(text)
      stored == data_set(user_data[u], "token2", token2)
      r == process_add_account(u, token2, outcome) IN
  /\ dispatch(u, [kind |-> "text", data |-> text]).handler = "add_account_token"
  /\ Tick
  /\ IF token_exists(token2)
     THEN /\ user_data' = [user_data EXCEPT ![u] = stored]
          /\ account_conv' = update_state(account_conv, u, ADD_ACCOUNT_CONFIRM)
          /\ last' = Turn(u, "add_account_token", text, "none", FALSE, <<Msg("duplicate_prompt")>>)
          /\ UNCHANGED accounts
     ELSE /\ Len(accounts) + Len(r.rows) <= MaxAccounts
          /\ accounts' = log_account(accounts, r.rows)
          /\ last' = Turn(u, "add_account_token", text, r.call, r.raised, r.out)
          /\ IF r.raised
             THEN /\ user_data' = [user_data EXCEPT ![u] = stored]
                  /\ UNCHANGED account_conv
             ELSE /\ user_data' = [user_data EXCEPT ![u] = EmptyData]
                  /\ account_conv' = update_state(account_conv, u, END)
  /\ UNCHANGED <<users, admin_conv>>

\* 'no' ends the conversation instead of asking for another credential
add_account_confirm_no_ends(u, data, outcome) ==
  LET token2 == data_get(user_data[u], "token2")
      r == process_add_account(u, token2, outcome) IN
  /\ dispatch(u, [kind |-> "callback", data |-> data]).handler = "add_account_confirm"
  /\ Tick
  /\ IF data = "add_account_confirm_no"
     THEN /\ user_data' = [user_data EXCEPT ![u] = EmptyData]
          /\ account_conv' = update_state(account_conv, u, END)
          /\ last' = Turn(u, "add_account_confirm", <<data>>, "none", FALSE, <<Msg("ask_other_token")>>)
          /\ UNCHANGED accounts
     ELSE /\ Len(accounts) + Len(r.rows) <= MaxAccounts
          /\ accounts' = log_account(accounts, r.rows)
          /\ last' = Turn(u, "add_account_confirm", <<data>>, r.call, r.raised,
                          <<Msg("checking")>> \o r.out)
          /\ IF r.raised
             THEN UNCHANGED <<user_data, account_conv>>
             ELSE /\ user_data' = [user_data EXCEPT ![u] = EmptyData]
                  /\ account_conv' = update_state(account_conv, u, END)
  /\ UNCHANGED <<users, admin_conv>>

add_account_confirm(u, data, outcome) ==
  LET token2 == data_get(user_data[u], "token2")
      r == process_add_account(u, token2, outcome) IN
  /\ dispatch(u, [kind |-> "callback", data |-> data]).handler = "add_account_confirm"
  /\ Tick
  /\ IF data = "add_account_confirm_no"
     THEN /\ user_data' = [user_data EXCEPT ![u] = EmptyData]
          /\ account_conv' = update_state(account_conv, u, ADD_ACCOUNT_TOKEN)
          /\ last' = Turn(u, "add_account_confirm", <<data>>, "none", FALSE, <<Msg("ask_other_token")>>)
          /\ UNCHANGED accounts
     ELSE /\ Len(accounts) + Len(r.rows) <= MaxAccounts
          /\ accounts' = log_account(accounts, r.rows)
          /\ last' = Turn(u, "add_account_confirm", <<data>>, r.call, r.raised,
                          <<Msg("checking")>> \o r.out)
          /\ IF r.raised
             THEN UNCHANGED <<user_data, account_conv>>
             ELSE /\ user_data' = [user_data EXCEPT ![u] = EmptyData]
                  /\ account_conv' = update_state(account_conv, u, END)
  /\ UNCHANGED <<users, admin_conv>>

\* the entry point without the allow-list check
admin_request_user_id_unchecked(u, data) ==
  /\ dispatch(u, [kind |-> "callback", data |-> data]).handler = "admin_request_user_id"
  /\ Tick
  /\ user_data' = [user_data EXCEPT ![u] = data_set(user_data[u], "admin_action", data)]
  /\ admin_conv' = update_state(admin_conv, u, ADMIN_WAIT_USER_ID)
  /\ last' = Turn(u, "admin_request_user_id", <<data>>, "none", FALSE, <<Msg("ask_user_id")>>)
  /\ UNCHANGED <<users, accounts, account_conv>>

admin_request_user_id(u, data) ==
  /\ dispatch(u, [kind |-> "callback", data |-> data]).handler = "admin_request_user_id"
  /\ Tick
  /\ IF u \notin ADMIN_IDS
     THEN /\ admin_conv' = update_state(admin_conv, u, END)
          /\ last' = Turn(u, "admin_request_user_id", <<data>>, "none", FALSE, <<Msg("no_access")>>)
          /\ UNCHANGED user_data
     ELSE /\ user_data' = [user_data EXCEPT ![u] = data_set(user_data[u], "admin_action", data)]
          /\ admin_conv' = update_state(admin_conv, u, ADMIN_WAIT_USER_ID)
          /\ last' = Turn(u, "admin_request_user_id", <<data>>, "none", FALSE, <<Msg("ask_user_id")>>)
  /\ UNCHANGED <<users, accounts, account_conv>>

admin_handle_user_id(u, text) ==
  LET user_id_text == strip(text)
      target_user_id == int(user_id_text)
      action == data_get(user_data[u], "admin_action") IN
  /\ dispatch(u, [kind |-> "text", data |-> text]).handler = "admin_handle_user_id"
  /\ Tick
  /\ IF ~isdigit(user_id_text)
     THEN /\ last' = Turn(u, "admin_handle_user_id", text, "none", FALSE, <<Msg("id_must_be_number")>>)
          /\ admin_conv' = update_state(admin_conv, u, ADMIN_WAIT_USER_ID)
          /\ UNCHANGED <<users, user_data>>
     ELSE /\ users' = IF action = "admin_grant" THEN grant_user(users, target_user_id) ELSE users
          /\ last' = Turn(u, "admin_handle_user_id", text, "none", FALSE,
                 (IF action = "admin_grant" THEN <<[kind |-> "access_granted", target |-> target_user_id]>>
                  ELSE IF action = "admin_refunds"
                  THEN <<[kind |-> "user_accounts", target |-> target_user_id,
                          accounts_count |-> get_accounts_count(target_user_id)]>>
                  ELSE <<>>) \o <<MainMenu(u)>>)
          /\ user_data' = [user_data EXCEPT ![u] = EmptyData]
          /\ admin_conv' = update_state(admin_conv, u, END)
  /\ UNCHANGED <<accounts, account_conv>>

Next ==
  \/ \E u \in UserIds : start(u)
  \/ \E u \in UserIds : profile(u)
  \/ \E u \in UserIds : admin_menu(u)
  \/ \E u \in UserIds : admin_stats(u)
  \/ \E u \in UserIds : show_main_menu(u)
  \/ \E u \in UserIds : add_account_entry(u)
  \/ \E u \in UserIds, text \in Texts, outcome \in Outcomes : add_account_token(u, text, outcome)
  \/ \E u \in UserIds, data \in {"add_account_confirm_yes", "add_account_confirm_no"},
        outcome \in Outcomes : add_account_confirm(u, data, outcome)
  \/ \E u \in UserIds, data \in {"admin_grant", "admin_refunds"} : admin_request_user_id(u, data)
  \/ \E u \in UserIds, text \in Texts : admin_handle_user_id(u, text)

Spec == Init /\ [][Next]_vars

(***************************************************************************)
(* Normalisation on its own: the first submission of one user, answered    *)
(* with status 200 and a body drawn from a set of JSON objects that covers *)
(* every key the code reads with values of every kind                      *)
(***************************************************************************)
NormValues == {JNull, JBool(TRUE), JBool(FALSE), JNum(0), JNum(5), JStr(""), JStr("x"),
               EmptyList, EmptyDict, JObj([k |-> JStr("v")])}

TopKeys == {"authorized", "token_valid", "is_loyal", "phone", "phones", "personal_phone_id",
            "phone_id", "uuid", "id", "typed_experiments", "subscriptions", "orders_state",
            "passenger_profile"}

\* {key: val}
One(key, val) == JObj([k \in {key} |-> val])

ExperimentItems == {
  JObj([name |-> JStr("x"), value |-> JObj([enabled |-> JBool(TRUE)])]),
  JObj([name |-> JStr("x"), value |-> JNull]),
  JObj([name |-> JStr(""), value |-> JObj([enabled |-> JBool(TRUE)])]),
  JObj([name |-> JStr("y")]),
  JObj([name |-> JStr("x"), value |-> JBool(FALSE)]),
  JObj([name |-> JStr("turboapp_debt_flow"),
        value |-> JObj([enabled |-> JBool(TRUE), debt_limit |-> JNum(100)])]),
  JObj([name |-> JStr("turboapp_debt_flow"), value |-> JObj([debt_limit |-> JNum(5)])]),
  JObj([name |-> JStr("turboapp_debt_flow"), value |-> JStr("on")]),
  JStr("x") }

ExperimentLists ==
  {<<>>} \cup {<<a>> : a \in ExperimentItems}
         \cup {<<a, b>> : a \in ExperimentItems, b \in ExperimentItems}

SubscriptionLists == {
  <<JObj([subscription_id |-> JStr("plus")])>>,
  <<JObj([subscription_id |-> JStr("plus")]), JObj([subscription_id |-> JStr("pro")])>>,
  <<EmptyDict>>,
  <<JObj([subscription_id |-> JNum(5)])>>,
  <<JStr("x")>> }

NormBodies ==
  {EmptyDict}
  \cup {One(key, val) : key \in TopKeys, val \in NormValues}
  \cup {One("orders_state", One("can_make_more_orders", val)) : val \in NormValues}
  \cup {One("passenger_profile", One("rating", val)) : val \in NormValues}
  \cup {One("passenger_profile", One("status", One("value", val))) : val \in NormValues}
  \cup {One("typed_experiments", One("items", JList(l))) : l \in ExperimentLists}
  \cup {One("subscriptions", One("active_subscriptions", JList(l))) : l \in SubscriptionLists}
  \cup {One("phones", JObj([p1 |-> JStr("id1"), p2 |-> JStr("id2")]))}
  \cup {JObj([authorized |-> JBool(TRUE), token_valid |-> JBool(TRUE)])}

NormOutcomes ==
  {[kind |-> "response", response |-> [status_code |-> 200, text |-> b]] : b \in NormBodies}

NormUser == 2

NormNext ==
  \/ add_account_entry(NormUser)
  \/ \E outcome \in NormOutcomes :
       accounts = <<>> /\ add_account_token(NormUser, <<"a">>, outcome)

SpecNorm == Init /\ [][NormNext]_vars

(***************************************************************************)
(* The submission handler in two steps, split where it awaits the answer   *)
(* of the launch endpoint: inflight[u] is the credential of the request    *)
(* user u's handler is waiting for                                         *)
(***************************************************************************)
\* concurrent_updates(True): updates are handled as they arrive
idle_concurrent == TRUE

\* the application awaits the handler of one update before it takes the next
idle == \A u \in UserIds : inflight[u] = None

\* add_account_token up to "await client.post": the credential is buffered,
\* the existence check has failed and the request is on its way
begin_add_account_token(u, text) ==
  LET token2 == strip(text) IN
  /\ idle
  /\ inflight[u] = None
  /\ dispatch(u, [kind |-> "text", data |-> text]).handler = "add_account_token"
  /\ ~token_exists(token2)
  /\ updates < MaxUpdates /\ updates' = updates + 1
  /\ user_data' = [user_data EXCEPT ![u] = data_set(user_data[u], "token2", token2)]
  /\ inflight' = [inflight EXCEPT ![u] = token2]
  /\ last' = Turn(u, "add_account_token", text, "pending", FALSE, <<>>)
  /\ UNCHANGED <<users, accounts, account_conv, admin_conv>>

\* add_account_token from the answer (or the transport error) to its return
finish_add_account_token(u, outcome) ==
  LET r == process_add_account(u, inflight[u], outcome) IN
  /\ inflight[u] # None
  /\ Len(accounts) + Len(r.rows) <= MaxAccounts
  /\ accounts' = log_account(accounts, r.rows)
  /\ last' = Turn(u, "add_account_token", inflight[u], r.call, r.raised, r.out)
  /\ IF r.raised
     THEN UNCHANGED <<user_data, account_conv>>
     ELSE /\ user_data' = [user_data EXCEPT ![u] = EmptyData]
          /\ account_conv' = update_state(account_conv, u, END)
  /\ inflight' = [inflight EXCEPT ![u] = None]
  /\ UNCHANGED <<users, admin_conv, updates>>

AsyncNext ==
  \/ \E u \in UserIds : idle /\ add_account_entry(u)
  \/ \E u \in UserIds, text \in Texts : begin_add_account_token(u, text)
  \/ \E u \in UserIds, outcome \in Outcomes : finish_add_account_token(u, outcome)
  \/ \E u \in UserIds, text \in Texts, outcome \in Outcomes :
        idle /\ token_exists(strip(text)) /\ add_account_token(u, text, outcome)
  \/ \E u \in UserIds, data \in {"add_account_confirm_yes", "add_account_confirm_no"},
        outcome \in Outcomes : idle /\ add_account_confirm(u, data, outcome)

SpecAsync == Init /\ [][AsyncNext]_vars

(***************************************************************************)
(* Observations used by the properties                                     *)
(***************************************************************************)
Sent(kind) == \E i \in 1..Len(last.out) : last.out[i].kind = kind
SentNext(kind) == \E i \in 1..Len(last'.out) : last'.out[i].kind = kind
Credentials == {accounts[i].token2 : i \in 1..Len(accounts)}
Appended == Len(accounts') = Len(accounts) + 1 /\ SubSeq(accounts', 1, Len(accounts)) = accounts
\* a text with the blanks at both ends removed, written without str.strip
Trimmed(text) ==
  LET core == {i \in 1..Len(text) : text[i] # " "} IN
  IF core = {} THEN <<>>
  ELSE LET lo == CHOOSE i \in core : \A j \in core : i <= j
           hi == CHOOSE i \in core : \A j \in core : i >= j IN
       SubSeq(text, lo, hi)

\* C1: a submission of a credential that already appears in an AccountRecord
\* moves the session to ADD_ACCOUNT_CONFIRM without a remote call or a new
\* record; while the session waits there no other turn of that user calls or
\* writes; a record for an already stored credential is only ever appended by
\* add_account_confirm.
C1_DuplicateNeedsConfirmation ==
  [][ /\ (last'.handler = "add_account_token" /\ Trimmed(last'.data) \in Credentials)
         => /\ account_conv'[last'.user] = ADD_ACCOUNT_CONFIRM
            /\ last'.call = "none"
            /\ accounts' = accounts
      /\ (account_conv[last'.user] = ADD_ACCOUNT_CONFIRM /\ last'.handler # "add_account_confirm")
         => /\ last'.call = "none"
            /\ accounts' = accounts
      /\ (Appended /\ accounts'[Len(accounts')].token2 \in Credentials)
         => /\ last'.handler = "add_account_confirm"
            /\ last'.data = <<"add_account_confirm_yes">>
            /\ account_conv[last'.user] = ADD_ACCOUNT_CONFIRM
    ]_vars

\* witness of C1: a user resubmitted a stored credential and now waits at the
\* confirmation step, nothing called, nothing written
C1_Witness ==
  /\ last.handler = "add_account_token"
  /\ Trimmed(last.data) \in Credentials
  /\ account_conv[last.user] = ADD_ACCOUNT_CONFIRM
  /\ Sent("duplicate_prompt")
  /\ last.call = "none"

\* C2: every submission that reaches the remote call appends exactly one
\* AccountRecord, whatever the outcome of the call.
C2_ExactlyOneRecord ==
  [][ last'.call # "none" => Appended ]_vars

\* C3: a transport error of the remote call ends like an unparseable body: a
\* record with default fields is persisted, the 'could not parse' notice is
\* sent, the handler does not raise and the account flow ends.
C3_TransportErrorLikeUnparseable ==
  [][ last'.call = "transport_error"
      => /\ Appended
         /\ accounts'[Len(accounts')].authorized = 0
         /\ accounts'[Len(accounts')].phone = JNull
         /\ SentNext("parse_failed")
         /\ ~last'.raised
         /\ account_conv'[last'.user] = END ]_vars

\* C4: every submission that issues the remote call concludes with the main
\* menu shown, the account flow ended and the user's buffer cleared.
C4_EndsAtMainMenu ==
  [][ last'.call # "none"
      => /\ SentNext("main_menu")
         /\ account_conv'[last'.user] = END
         /\ DOMAIN user_data'[last'.user] = {} ]_vars

\* C5: a user never has the account flow and the admin flow both waiting for
\* input.
C5_OneActiveFlow ==
  \A u \in UserIds : ~(account_conv[u] # END /\ admin_conv[u] # END)

\* C6: after /start no flow of that user remains active.
C6_StartResets ==
  last.handler = "start"
    => (account_conv[last.user] = END /\ admin_conv[last.user] = END)

\* C7: a user outside the allow-list never receives an administrative result:
\* aggregate counts, per-user counts, a grant, or the admin keyboard.
C7_AdminGated ==
  last.user \notin ADMIN_IDS
    => \A i \in 1..Len(last.out) :
         last.out[i].kind \notin {"stats", "user_accounts", "access_granted", "admin_keyboard"}

\* C8: once is_allowed is 1 for a user it is 1 in every later state.
C8_FlagMonotonic ==
  [][ \A k \in DOMAIN users :
        users[k] = 1 => (k \in DOMAIN users' /\ users'[k] = 1) ]_vars

\* witness of C8: a user outside ADMIN_IDS who was granted access has just
\* been upserted by /start and still holds the flag
C8_Witness ==
  /\ last.handler = "start"
  /\ last.user \notin ADMIN_IDS
  /\ last.user \in DOMAIN users
  /\ users[last.user] = 1

\* decimal digits, written without str.isdigit
AllDigits(text) ==
  /\ text # <<>>
  /\ \A i \in 1..Len(text) : text[i] \in {"0", "1", "2", "3", "4", "5", "6", "7", "8", "9"}

\* C9: a numeric id entered at ADMIN_WAIT_USER_ID always executes the chosen
\* action: the grant or the count report is performed before the flow ends.
C9_NumericIdRunsAction ==
  (last.handler = "admin_handle_user_id" /\ AllDigits(Trimmed(last.data)))
    => (Sent("access_granted") \/ Sent("user_accounts"))

\* C10: a text that is not all digits, sent by a user whose admin flow is at
\* ADMIN_WAIT_USER_ID, leaves the flow at that step, keeps the buffered
\* admin_action and changes neither users nor accounts.
C10_NonNumericReprompts ==
  [][ ( /\ last'.user \in UserIds
        /\ admin_conv[last'.user] = ADMIN_WAIT_USER_ID
        /\ last'.handler \in {"add_account_token", "admin_handle_user_id"}
        /\ ~AllDigits(Trimmed(last'.data)) )
      => /\ admin_conv'[last'.user] = ADMIN_WAIT_USER_ID
         /\ ("admin_action" \in DOMAIN user_data[last'.user]
               => /\ "admin_action" \in DOMAIN user_data'[last'.user]
                  /\ user_data'[last'.user]["admin_action"] = user_data[last'.user]["admin_action"])
         /\ users' = users
         /\ accounts' = accounts ]_vars

\* C11: when a user outside ADMIN_IDS presses admin_grant or admin_refunds the
\* flow ends at once with the denial: the user is not at ADMIN_WAIT_USER_ID
\* afterwards, user_data is unchanged and neither table is written.
C11_DeniedEntryLeavesNoTrace ==
  [][ ( /\ last'.user \in UserIds \ ADMIN_IDS
        /\ last'.data \in {<<"admin_grant">>, <<"admin_refunds">>} )
      => /\ SentNext("no_access")
         /\ admin_conv'[last'.user] = END
         /\ user_data' = user_data
         /\ users' = users
         /\ accounts' = accounts ]_vars

\* witness of C11: a user outside ADMIN_IDS with a buffered credential was
\* denied at the admin entry point and still holds that credential
C11_Witness ==
  /\ last.user \in UserIds \ ADMIN_IDS
  /\ last.handler = "admin_request_user_id"
  /\ Sent("no_access")
  /\ admin_conv[last.user] = END
  /\ "token2" \in DOMAIN user_data[last.user]

\* C12: on a turn that shows an account summary, every field of the summary
\* agrees with the record written on that turn: a flag is shown as yes/on
\* exactly when the stored flag is 1, and a value field shows the default
\* label exactly when the stored column is NULL.
C12_SummaryMatchesRecord ==
  \A i \in 1..Len(last.out) :
    last.out[i].kind = "summary" =>
      LET s == last.out[i].summary
          row == accounts[Len(accounts)] IN
      /\ \A g \in {"authorized", "token_valid", "is_loyal"} : (s[g] = LabelYes) <=> (row[g] = 1)
      /\ (s.debt_flow_enabled = LabelOn) <=> (row.debt_flow_enabled = 1)
      /\ \A g \in DirectColumns : (s[g] = LabelNoData) <=> (row[g] = JNull)

\* C13: normalisation is total: whenever the launch endpoint answered, the
\* handler did not raise (it built the record and the summary, or recorded an
\* unparseable body).
C13_NormalizationTotal ==
  last.call = "answered" => ~last.raised

\* C14: AccountRecords are append-only: every step keeps all stored records
\* unchanged and in place, and their number never decreases.
C14_AppendOnly ==
  [][ /\ Len(accounts') >= Len(accounts)
      /\ SubSeq(accounts', 1, Len(accounts)) = accounts ]_vars

C14_Witness ==
  /\ Len(accounts) = 2
  /\ accounts[1].token2 = accounts[2].token2
  /\ last.handler = "admin_handle_user_id"
  /\ Sent("user_accounts")

\* C15: the program has a refund flow of six steps ending in a confirmation,
\* a table of RefundRecords to which a confirmed submission adds exactly one
\* record, and a per-user refund counter, shown with the profile.
C15_RefundFlowPersistsOneRecord ==
  /\ \A i \in 1..Len(last.out) :
        last.out[i].kind = "profile" => "refunds_count" \in DOMAIN last.out[i]
  /\ "refund" \in DOMAIN FlowSteps
  /\ Cardinality(FlowSteps["refund"]) >= 5
  /\ "refunds" \in Tables

StrictColumns == {"authorized", "token_valid", "is_loyal", "debt_flow_enabled"}

\* C16 as stated: the authorization, token validity, ordering-permission,
\* loyalty and debt-flow flags of every stored record are 0 or 1.
C16_AllFlagsStrict ==
  \A i \in 1..Len(accounts) :
    /\ \A g \in StrictColumns : accounts[i][g] \in {0, 1}
    /\ accounts[i].can_make_more_orders \in {[t |-> "text", v |-> 0], [t |-> "text", v |-> 1]}

\* C16 amended: the authorization, token validity, loyalty and debt-flow
\* flags of every stored record are 0 or 1 whatever the source field held;
\* the ordering permission is stored as the text of the value received (NULL
\* when absent or null).
C16_FlagsStrictPermissionAsReceived ==
  \A i \in 1..Len(accounts) :
    LET row == accounts[i]
        body == row.response_body
        orders_state == IF "orders_state" \in DOMAIN body.v THEN body.v["orders_state"] ELSE JNull
        received == IF orders_state.t = "obj" /\ "can_make_more_orders" \in DOMAIN orders_state.v
                    THEN orders_state.v["can_make_more_orders"] ELSE JNull IN
    /\ \A g \in StrictColumns : row[g] \in {0, 1}
    /\ body.t = "obj" =>
         row.can_make_more_orders =
           CASE received.t = "bool" -> [t |-> "text", v |-> IF received.v THEN 1 ELSE 0]
             [] received.t = "num" -> [t |-> "text", v |-> received.v]
             [] OTHER -> received

C16_Witness ==
  /\ Len(accounts) = 1
  /\ accounts[1].response_body = One("authorized", JNum(5))
  /\ accounts[1].authorized = 1
  /\ accounts[1].can_make_more_orders = JNull

\* the {name, value} entries of a stored response: typed_experiments.items
StoredItems(row) ==
  LET body == row.response_body IN
  IF body.t = "obj" /\ "typed_experiments" \in DOMAIN body.v
     /\ body.v["typed_experiments"].t = "obj"
     /\ "items" \in DOMAIN body.v["typed_experiments"].v
     /\ body.v["typed_experiments"].v["items"].t = "list"
  THEN body.v["typed_experiments"].v["items"].v
  ELSE <<>>

NameOf(item) == IF "name" \in DOMAIN item.v THEN item.v["name"] ELSE JNull
ValueOf(item) == IF "value" \in DOMAIN item.v THEN item.v["value"] ELSE JNull
LastWith(items, name) ==
  CHOOSE j \in 1..Len(items) :
    NameOf(items[j]) = name /\ \A k \in (j + 1)..Len(items) : NameOf(items[k]) # name

\* C17 as stated: the flags mapping built from the entries of a stored
\* response maps every name that occurs in the list to the value of the last
\* entry carrying that name.
C17_LastEntryWins ==
  \A i \in 1..Len(accounts) :
    LET items == StoredItems(accounts[i])
        flags == parse_typed_experiments(JList(items)).val
        names == {items[j].v["name"] : j \in {k \in 1..Len(items) : "name" \in DOMAIN items[k].v}} IN
    /\ DOMAIN flags = names
    /\ \A n \in names : flags[n] = ValueOf(items[LastWith(items, n)])

\* C17 amended: the flags mapping maps every non-empty name that occurs in the
\* list to the value of the last entry carrying that name, an absent or falsy
\* value (null, false, 0, empty) being replaced by the empty mapping; entries
\* without a name or with an empty name are skipped.
C17_LastNamedEntryWins ==
  \A i \in 1..Len(accounts) :
    LET items == StoredItems(accounts[i])
        flags == parse_typed_experiments(JList(items)).val
        names == {NameOf(items[j]) : j \in 1..Len(items)} \ {JNull, JStr("")} IN
    /\ DOMAIN flags = names
    /\ \A n \in names :
         LET value == ValueOf(items[LastWith(items, n)]) IN
         flags[n] = IF Truthy(value) THEN value ELSE EmptyDict

C17_Witness ==
  /\ Len(accounts) = 1
  /\ LET items == StoredItems(accounts[1]) IN
       /\ Len(items) = 2
       /\ NameOf(items[1]) = JStr("turboapp_debt_flow")
       /\ NameOf(items[2]) = JStr("turboapp_debt_flow")
       /\ ValueOf(items[1]) # ValueOf(items[2])
       /\ accounts[1].debt_limit = dict_get(ValueOf(items[2]), "debt_limit", JNull)

\* C18: every record appended carries a credential (never a missing one) and
\* belongs to the user of the turn; a 'yes' at ADD_ACCOUNT_CONFIRM issues the
\* remote call, and the record it writes carries the credential that was
\* already stored and triggered the confirmation, whatever turns came between.
C18_YesUsesTriggeringCredential ==
  [][ /\ Appended =>
           /\ accounts'[Len(accounts')].token2 # None
           /\ accounts'[Len(accounts')].user_id = last'.user
      /\ ( last'.handler = "add_account_confirm" /\ last'.data = <<"add_account_confirm_yes">> )
           => /\ last'.call # "none"
              /\ Appended => accounts'[Len(accounts')].token2 \in Credentials ]_vars

C20_NoReturnsToToken ==
  [][ /\ ( last'.handler = "add_account_confirm" /\ last'.data = <<"add_account_confirm_no">> )
           => /\ account_conv[last'.user] = ADD_ACCOUNT_CONFIRM
              /\ last'.call = "none"
              /\ accounts' = accounts
              /\ "token2" \notin DOMAIN user_data'[last'.user]
              /\ account_conv'[last'.user] = ADD_ACCOUNT_TOKEN
      /\ ( /\ last.handler = "add_account_confirm" /\ last.data = <<"add_account_confirm_no">>
           /\ last'.user = last.user /\ last'.data \in Texts )
           => /\ last'.handler = "add_account_token"
              /\ last'.call # "none" \/ Sent("duplicate_prompt")' ]_vars

C20_Witness ==
  /\ last.handler = "add_account_confirm"
  /\ last.data = <<"add_account_confirm_no">>
  /\ account_conv[last.user] = ADD_ACCOUNT_TOKEN
  /\ user_data[last.user] = EmptyData
  /\ Len(accounts) = 1

\* C21: in every reachable state a user with no flow at a non-terminal step
\* (both conversations at END) has an empty user_data: neither a credential
\* nor an admin action outlives the flows that stored them.
C21_NoFlowNoBuffer ==
  \A u \in UserIds :
    /\ (account_conv[u] = END /\ admin_conv[u] = END) => DOMAIN user_data[u] = {}
    /\ account_conv[u] = END => "token2" \notin DOMAIN user_data[u]
    /\ admin_conv[u] = END => "admin_action" \notin DOMAIN user_data[u]

C21_Witness ==
  /\ last.handler = "add_account_token"
  /\ last.call = "answered"
  /\ ~last.raised
  /\ Len(accounts) = 1
  /\ account_conv[last.user] = END
  /\ admin_conv[last.user] = END
  /\ DOMAIN user_data[last.user] = {}

====
